---- MODULE Spec2Model ----
(***************************************************************************)
(* Model of the client-side analysis orchestration of src/App.tsx: the     *)
(* view/status state machine, the single scan, the batch queue runner      *)
(* (an effect re-triggered by state changes), the history ledger and the   *)
(* window.handleResult bridge (its installation and teardown, the payloads *)
(* it normalises), the outcomes of fileToBase64 in                         *)
(* src/services/geminiService.ts, and the Scanner's delayed start.         *)
(***************************************************************************)
EXTENDS Integers, Sequences, FiniteSets, TLC

\* ------------------------------------------------------------------ bounds
MaxSelections == 2      \* file selections (Scanner.handleFiles calls) in a run
MaxBatch == 2           \* longest file list a selection can carry
MaxInjections == 1      \* window.handleResult calls in a run
MaxToggles == 3         \* clicks on integration cards in a run

\* ------------------------------------------------------------- data model
\* the JavaScript null (a record, so that it compares with FileData and results)
Null == [null |-> TRUE]

ViewState ==
  {"HOME", "SCANNING", "RESULT", "BATCH_PROCESSING", "BATCH_RESULT",
   "DASHBOARD", "SETTINGS"}

AnalysisStatus == {"IDLE", "UPLOADING", "ANALYZING", "COMPLETE", "ERROR"}

\* The files of the folder the user selects from, in listing order; f2 is a
\* video, the others are images.
Folder == <<"f1", "f2", "f3">>

Files == {Folder[k] : k \in 1..Len(Folder)}

FileType(f) == IF f = "f2" THEN "video/mp4" ELSE "image/png"

IsImage(f) == FileType(f) \in {"image/png", "image/jpeg"}

\* A plausible slip: the type of the file is passed on as it is.
EffectiveMimeTypeOfFile(f) == FileType(f)

\* file.type.startsWith('image/') ? 'image/jpeg' : file.type
EffectiveMimeType(f) == IF IsImage(f) THEN "image/jpeg" ELSE FileType(f)

\* const FORENSIC_STEPS = [...]: the status texts of the scanning screen
\* (a JavaScript array: entry i of it is FORENSIC_STEPS[i + 1] here).
FORENSIC_STEPS ==
  <<"INITIALIZING NEURAL LAYERS...",
    "EXTRACTING FREQUENCY DOMAIN DATA...",
    "DETECTING GAN NOISE FINGERPRINTS...",
    "COMPARING DIFFUSION SIGNATURES...",
    "ANALYZING BIOMETRIC TOPOLOGY...",
    "VALIDATING PHOTOMETRIC CONSISTENCY...",
    "CHECKING TEMPORAL COHERENCE...",
    "CROSS-REFERENCING C2PA METADATA...",
    "FINALIZING PROBABILISTIC MODEL...">>

\* new Date().toISOString(): a reading of the local clock.
LocalTimestamp == "local clock"

\* A timestamp that was written somewhere else.
RemoteTimestamp == "2001-01-01T00:00:00.000Z"

\* The JSON object the remote service answers with for a file (isAI, score):
\* the service is a function of the media; f1 is synthetic, the others are
\* not; the answer for the video carries a timestamp field of its own.
ResponseData(f) ==
  IF f = "f1" THEN [isAI |-> TRUE, score |-> 95]
  ELSE IF f = "f2"
       THEN [isAI |-> FALSE, score |-> 5, timestamp |-> RemoteTimestamp]
       ELSE [isAI |-> FALSE, score |-> 5]

\* {...data} of what JSON.parse gave: null spreads to no property at all.
Spread(data) == IF data = Null THEN <<>> ELSE data

\* A plausible slip: the spread comes last, so a timestamp of data wins.
StampFirst(data) == Spread(data) @@ [timestamp |-> LocalTimestamp]

\* return { ...data, timestamp: new Date().toISOString() }
Stamp(data) == [timestamp |-> LocalTimestamp] @@ Spread(data)

\* What analyzeContent resolves with for a file.
ServiceResult(f) == Stamp(ResponseData(f))

\* What fileToBase64 resolves with: the bytes of a file, re-encoded as a JPEG
\* of at most 1024 px by optimizeImageForMobile, or as the file reader gives
\* them.
Base64(f, enc) == [of |-> f, enc |-> enc]

\* base64: "" of the bridge's placeholder
EmptyBase64 == [of |-> "null", enc |-> "empty"]

\* The values fileToBase64(file) can resolve with.  An image is optimised;
\* when the optimiser rejects (no canvas context, the image does not decode,
\* the reader fails) the catch block reads the raw file instead.  Anything
\* else is read raw.  (The reader failing on the raw read rejects the call:
\* SingleCatch, BatchItemFail.)
FileToBase64(f) ==
  IF IsImage(f) THEN {Base64(f, "jpeg"), Base64(f, "raw")} ELSE {Base64(f, "raw")}

\* The inlineData part analyzeContent(base64, mimeType) sends.
AnalyzeRequest(f, b) == [data |-> b, mimeType |-> EffectiveMimeType(f)]

\* FileData built by handleScanStart after preprocessing.
FileData(f, b) ==
  [file |-> f, previewUrl |-> f, mimeType |-> EffectiveMimeType(f), base64 |-> b]

\* file: null of a FileData (a string, as the file names are)
NoFile == "null"

\* Placeholder FileData built by the bridge when no file is loaded.
PlaceholderFile ==
  [file |-> NoFile, previewUrl |-> "", mimeType |-> "application/octet-stream",
   base64 |-> EmptyBase64]

\* { ...result, id, thumbnail }  (the random id carries no behaviour)
HistoryItem(r, thumb) == [thumbnail |-> thumb] @@ r

BatchAnalysisResult(f, r) == [fileName |-> f, result |-> r, thumbnail |-> f]

\* What a FileList handed to Scanner.handleFiles can be: a run of up to
\* MaxBatch neighbouring files of the folder, or nothing.
FileLists ==
  {SubSeq(Folder, ab[1], ab[2]) :
     ab \in {x \in (1..Len(Folder)) \X (0..Len(Folder)) : x[2] - x[1] < MaxBatch}}

\* ------------------------------------------------- the bridge's payloads
\* A string is the sequence of its characters.
UpperCase ==
  <<"A", "B", "C", "D", "E", "F", "G", "H", "I", "J", "K", "L", "M", "N", "O",
    "P", "Q", "R", "S", "T", "U", "V", "W", "X", "Y", "Z">>

LowerCase ==
  <<"a", "b", "c", "d", "e", "f", "g", "h", "i", "j", "k", "l", "m", "n", "o",
    "p", "q", "r", "s", "t", "u", "v", "w", "x", "y", "z">>

\* String.prototype.toLowerCase
ToLowerCase(t) ==
  [k \in 1..Len(t) |->
     IF \E n \in 1..26 : UpperCase[n] = t[k]
     THEN LowerCase[CHOOSE n \in 1..26 : UpperCase[n] = t[k]]
     ELSE t[k]]

\* String.prototype.includes
Includes(t, sub) ==
  \E k \in 0..(Len(t) - Len(sub)) : SubSeq(t, k + 1, k + Len(sub)) = sub

Digits == {"0", "1", "2", "3", "4", "5", "6", "7", "8", "9"}

\* The texts JSON.parse accepts, among the strings without white space, braces
\* or brackets: the literals, the whole numbers and the quoted strings.
IsJSON(t) ==
  \/ t \in {<<"n", "u", "l", "l">>, <<"t", "r", "u", "e">>,
            <<"f", "a", "l", "s", "e">>}
  \/ Len(t) > 0 /\ \A k \in 1..Len(t) : t[k] \in Digits
  \/ /\ Len(t) >= 2
     /\ t[1] = "\"" /\ t[Len(t)] = "\""
     /\ \A k \in 2..(Len(t) - 1) : t[k] \notin {"\"", "\\"}

\* JSON.parse of such a text: null, or a value that is not an object (reading
\* a property of it gives undefined).
JSONParse(t) ==
  IF t = <<"n", "u", "l", "l">> THEN Null ELSE [scalar |-> t]

\* A plausible slip: the keywords are looked for without toLowerCase().
HeuristicCaseSensitive(t) ==
  LET isAI == \/ Includes(t, <<"a", "i">>)
              \/ Includes(t, <<"s", "y", "n", "t", "h", "e", "t", "i", "c">>)
  IN [isAI |-> isAI,
      score |-> IF isAI THEN 95 ELSE 5,
      verdict |-> IF isAI THEN "SYNTHETIC DETECTED" ELSE "AUTHENTIC MEDIA"]

\* The keyword heuristic for a string JSON.parse rejects.
Heuristic(t) ==
  LET isAI == \/ Includes(ToLowerCase(t), <<"a", "i">>)
              \/ Includes(ToLowerCase(t),
                          <<"s", "y", "n", "t", "h", "e", "t", "i", "c">>)
  IN [isAI |-> isAI,
      score |-> IF isAI THEN 95 ELSE 5,
      verdict |-> IF isAI THEN "SYNTHETIC DETECTED" ELSE "AUTHENTIC MEDIA"]

\* A complete verdict as a host sends it for a video.
FullVerdict ==
  [isAI |-> TRUE, score |-> 87, verdict |-> "DETECTED: SORA",
   reasoning |-> "Frame interpolation artifacts.",
   technicalDetails |-> <<"Temporal flicker">>,
   modelSignature |-> [name |-> "Sora", confidence |-> 80],
   forensicMetrics |->
     [biometricIntegrity |-> 20, textureFidelity |-> 30,
      lightingConsistency |-> 40, physicalLogic |-> 10],
   humanPerception |->
     [realnessScore |-> 60, suspiciousnessScore |-> 70,
      perceptualInconsistency |-> 30, artifactLevel |-> 20],
   suspiciousRegions |->
     <<[box_2d |-> <<10, 10, 50, 50>>, label |-> "Mismatched ear",
        confidence |-> 90]>>,
   watermark |->
     [detected |-> TRUE,
      signatures |-> <<[provider |-> "SynthID", type |-> "pixel",
                        confidence |-> 99]>>],
   videoAnalysis |->
     [temporalConsistencyScore |-> 40,
      frameAnomalies |-> <<[timestamp |-> 2, description |-> "Warp"]>>]]

\* The same for an image: no videoAnalysis block.
ImageVerdict == [f \in (DOMAIN FullVerdict) \ {"videoAnalysis"} |-> FullVerdict[f]]

\* The values a host can hand over, as an object or as its JSON text: whole
\* verdicts, verdicts with fields left out, emptied or given as 0, an object
\* with none of the fields, and null.
BridgeValues ==
  {FullVerdict, ImageVerdict,
   [isAI |-> TRUE], [isAI |-> FALSE],
   [isAI |-> FALSE, score |-> 0],
   [score |-> 70],
   [isAI |-> TRUE, verdict |-> ""],
   [isAI |-> TRUE, forensicMetrics |-> [biometricIntegrity |-> 80]],
   [extra |-> "x"],
   [isAI |-> TRUE, timestamp |-> RemoteTimestamp],
   Null}

\* Strings a host can hand over that are not the JSON text of an object.
BridgeTexts ==
  {<<"a", "i">>, <<"A", "I">>, <<"f", "a", "i", "l">>,
   <<"S", "y", "n", "t", "h", "e", "t", "i", "c">>,
   <<"S", "Y", "N", "T", "H", "E", "T", "I", "C", " ", "m", "e", "d", "i", "a">>,
   <<"s", "y", "n", "t", "h", "e", "t", "i", "k">>,
   <<"r", "e", "a", "l">>, <<"a", " ", "i">>, <<>>,
   <<"n", "u", "l", "l">>, <<"4", "2">>, <<"\"", "a", "i", "\"">>}

\* What the host can pass to window.handleResult: a structured value, the
\* JSON text of one, or another string.
BridgePayloads ==
  {[kind |-> "object", value |-> v] : v \in BridgeValues}
    \cup {[kind |-> "json", value |-> v] : v \in BridgeValues}
    \cup {[kind |-> "text", text |-> t] : t \in BridgeTexts}

\* The payloads the whole-program specification draws from.
Payloads ==
  {[kind |-> "object", value |-> [isAI |-> TRUE]],
   [kind |-> "object", value |-> [isAI |-> FALSE]],
   [kind |-> "text", text |-> <<"a", "i">>],
   [kind |-> "text", text |-> <<"r", "e", "a", "l">>],
   [kind |-> "json", value |-> Null]}

VARIABLES
  view,           \* useState<ViewState>
  status,         \* useState<AnalysisStatus>
  currentFile,    \* useState<FileData | null>
  currentResult,  \* useState<AnalysisResult | null>
  batchQueue,     \* useState<File[]>
  batchResults,   \* useState<BatchAnalysisResult[]>
  batchProgress,  \* useState(0)
  history,        \* useState<HistoryItem[]>
  timers,         \* pending setTimeout callbacks of Scanner.handleFiles
  tasks,          \* async calls in flight (handleScanStart / processQueue)
  run,            \* bookkeeping of the batch started last
  lastOp,         \* the handler that ran last, its input and its alerts
  selections,     \* number of handleFiles calls so far
  injections,     \* number of window.handleResult calls so far
  mounted,        \* App is mounted
  windowHandleResult,    \* window.handleResult: "none", "legacy" or "adapter"
  originalHandleResult,  \* const originalHandleResult of the live bridge effect
  indexHandler,   \* what index.html left in window.handleResult
  scanStep,       \* useState(0): the cursor into FORENSIC_STEPS
  scanText,       \* useState(""): the status text on the scanning screen
  capturedScanStep,  \* the scanStep the live interval callback closed over
  image,          \* the decoded image optimizeImageForMobile is given
  canvas,         \* the canvas it has sized, Null before it has run
  call,           \* one call of analyzeContent: where it is, what it got
  statuses,       \* Integrations: useState<Record<string, ...>>
  connectTimers,  \* pending 2000 ms timers of toggleStatus, oldest first
  toggles,        \* number of toggleStatus calls so far
  panelOp         \* what ran last in the panel, and for which card

\* The state of the program proper.
progVars ==
  <<view, status, currentFile, currentResult, batchQueue, batchResults,
    batchProgress, history, timers, tasks>>

\* Everything of App and its bookkeeping.
appVars ==
  <<view, status, currentFile, currentResult, batchQueue, batchResults,
    batchProgress, history, timers, tasks, run, lastOp, selections,
    injections, mounted, windowHandleResult, originalHandleResult,
    indexHandler, scanStep, scanText, capturedScanStep>>

\* The scanning screen's rotating status text.
scanVars == <<scanStep, scanText, capturedScanStep>>

\* The functions of geminiService.ts taken on their own.
serviceVars == <<image, canvas, call>>

vars ==
  <<view, status, currentFile, currentResult, batchQueue, batchResults,
    batchProgress, history, timers, tasks, run, lastOp, selections,
    injections, mounted, windowHandleResult, originalHandleResult,
    indexHandler, scanStep, scanText, capturedScanStep, image, canvas, call,
    statuses, connectTimers, toggles, panelOp>>

\* The integrations panel.
panelVars == <<statuses, connectTimers, toggles, panelOp>>

\* The global injection point and what the bridge effect holds of it.
bridgeVars ==
  <<mounted, windowHandleResult, originalHandleResult, indexHandler>>

\* Record of one handler run: its name, the files it was given (or the file
\* it worked on), the rest of the queue it captured, the batch it belongs to,
\* the result it received and the number of alert() calls it made; for a scan
\* step the request it has made of the analysis service, for the bridge the
\* payload it was given and how the call of the legacy handler went
\* ("absent", "returned", "threw").
Op(name, files, remaining, bid, result, alerts) ==
  [op |-> name, files |-> files, remaining |-> remaining, bid |-> bid,
   result |-> result, alerts |-> alerts, request |-> Null, payload |-> Null,
   legacy |-> "absent"]

\* One call of handleScanStart in single mode, suspended at an await.
SingleTask(f) ==
  [kind |-> "single", file |-> f, remaining |-> <<>>, bid |-> 0, pc |-> "pre",
   request |-> Null]

\* One call of processQueue: const file = batchQueue[0]; const remaining =
\* batchQueue.slice(1).  bid names the batch whose queue it was started from.
BatchTask(f, rest, b) ==
  [kind |-> "batch", file |-> f, remaining |-> rest, bid |-> b, pc |-> "pre",
   request |-> Null]

RemoveAt(s, i) == SubSeq(s, 1, i - 1) \o SubSeq(s, i + 1, Len(s))

SetPc(s, i, p) == [s EXCEPT ![i].pc = p]

\* the call goes on to analyzeContent(base64, effectiveMimeType)
SetRequest(s, i, rq) == [s EXCEPT ![i].request = rq]

\* Bookkeeping of a batch: its number, its input list, the files of it whose
\* processing has begun, its failed files and its history items so far.
NewRun(b, files) ==
  [id |-> b, files |-> files, started |-> <<>>, failed |-> 0, hist |-> 0]

\* The state after App has mounted and its effects have run once: the bridge
\* effect has captured h, the handler index.html defined ("none": it defined
\* none), and put the adapter in its place.
AppInit(h) ==
  /\ view = "HOME"
  /\ status = "IDLE"
  /\ currentFile = Null
  /\ currentResult = Null
  /\ batchQueue = <<>>
  /\ batchResults = <<>>
  /\ batchProgress = 0
  /\ history = <<>>
  /\ timers = <<>>
  /\ tasks = <<>>
  /\ run = NewRun(0, <<>>)
  /\ lastOp = Op("init", <<>>, <<>>, 0, Null, 0)
  /\ selections = 0
  /\ injections = 0
  /\ mounted = TRUE
  /\ indexHandler = h
  /\ originalHandleResult = h
  /\ windowHandleResult = "adapter"
  /\ scanStep = 0
  /\ scanText = ""
  /\ capturedScanStep = 0

\* No image has been handed to the optimiser.
NoImage == [width |-> 0, height |-> 0]

\* analyzeContent has not been called.
NoCall ==
  [pc |-> "idle", request |-> Null, requests |-> 0, response |-> Null,
   result |-> Null, error |-> "none"]

\* The cards of the integrations panel.
IntegrationKeys == {"instagram", "tiktok", "youtube", "telegram"}

\* useState({ instagram: 'inactive', tiktok: 'inactive', youtube: 'inactive',
\* telegram: 'active' }), and no timer is pending.
PanelInit ==
  /\ statuses = [k \in IntegrationKeys |->
                   IF k = "telegram" THEN "active" ELSE "inactive"]
  /\ connectTimers = <<>>
  /\ toggles = 0
  /\ panelOp = [op |-> "init", key |-> "none"]

\* No image is being optimised, no analysis call is under way and the
\* integrations panel is as it is first rendered.
InitWith(h) ==
  /\ AppInit(h)
  /\ image = NoImage
  /\ canvas = Null
  /\ call = NoCall
  /\ PanelInit

\* The page as shipped: index.html defines window.handleResult.
Init == InitWith("legacy")

\* ------------------------------------------------- the batch queue effect
\* useEffect(..., [view, batchQueue]): after a render in which view or
\* batchQueue changed, processQueue starts on the head of the queue when the
\* view is BATCH_PROCESSING.  queueSet says the handler called setBatchQueue
\* (always with a fresh array).  The conjunct is placed after view' and
\* batchQueue' are determined.
EffectStarts(queueSet) ==
  /\ queueSet \/ view' # view
  /\ view' = "BATCH_PROCESSING"
  /\ Len(batchQueue') > 0

\* ts and r are the tasks and the bookkeeping the handler leaves; b is the
\* batch the queue now held comes from.
ProcessQueueEffect(queueSet, ts, r, b) ==
  IF EffectStarts(queueSet)
  THEN /\ tasks' = Append(ts, BatchTask(Head(batchQueue'), Tail(batchQueue'), b))
       /\ run' = IF b = r.id
                 THEN [r EXCEPT !.started = Append(@, Head(batchQueue'))]
                 ELSE r
  ELSE /\ tasks' = ts
       /\ run' = r

\* ------------------------------------------------------ the bridge effect
\* A plausible slip: the cleanup clears the slot instead of restoring it.
CleanupSlotClears(original) == "none"

\* return () => { window.handleResult = originalHandleResult }
CleanupSlot(original) == original

\* useEffect(..., [currentFile]): after a render in which currentFile changed
\* the cleanup of the old effect runs, then the effect runs again: it
\* captures what is in the slot and installs a new adapter.
\* The conjunct is placed after currentFile' is determined.
BridgeEffect ==
  IF currentFile' # currentFile
  THEN /\ originalHandleResult' = CleanupSlot(originalHandleResult)
       /\ windowHandleResult' = "adapter"
       /\ UNCHANGED <<mounted, indexHandler>>
  ELSE UNCHANGED bridgeVars

\* ---------------------------------------------------- the scan-step effect
\* useEffect(..., [view]): after a render in which view changed the cleanup
\* clears the old interval; then, when the view is SCANNING, a new interval
\* is set whose callback closes over the scanStep of that render; otherwise
\* setScanStep(0).  The conjunct is placed after view' is determined.
\* A plausible slip: the cursor is left where it was.
ScanEffectElseKeeps == UNCHANGED scanVars

\* else { setScanStep(0) }
ScanEffectElse ==
  /\ scanStep' = 0
  /\ UNCHANGED <<scanText, capturedScanStep>>

ScanEffect ==
  IF view' # view
  THEN IF view' = "SCANNING"
       THEN /\ capturedScanStep' = scanStep
            /\ UNCHANGED <<scanStep, scanText>>
       ELSE ScanEffectElse
  ELSE UNCHANGED scanVars

\* The effects that run after the render a handler causes.
RenderEffects ==
  /\ BridgeEffect
  /\ ScanEffect
  /\ UNCHANGED serviceVars
  /\ UNCHANGED panelVars

\* ------------------------------------------------------ Scanner.handleFiles
\* if (!fileList || fileList.length === 0) return; otherwise
\* setTimeout(() => onScanStart(files), 800).  The Scanner is rendered in the
\* HOME view only.
HandleFiles(fileList) ==
  /\ mounted
  /\ view = "HOME"
  /\ selections < MaxSelections
  /\ selections' = selections + 1
  /\ lastOp' = Op("handleFiles", fileList, <<>>, 0, Null, 0)
  /\ timers' = IF Len(fileList) = 0 THEN timers ELSE Append(timers, fileList)
  /\ UNCHANGED <<view, status, currentFile, currentResult, batchQueue,
                 batchResults, batchProgress, history, tasks, run, injections>>
  /\ RenderEffects

\* ------------------------------------------------------- handleScanStart
\* A plausible slip: the single path taken for up to two files.
HandleScanStartLoose(files) ==
  IF Len(files) <= 2
  THEN /\ status' = "ANALYZING"
       /\ view' = "SCANNING"
       /\ UNCHANGED <<currentFile, currentResult, batchQueue, batchResults,
                      batchProgress, history>>
       /\ ProcessQueueEffect(FALSE, Append(tasks, SingleTask(files[1])), run, run.id)
  ELSE /\ batchQueue' = files
       /\ batchResults' = <<>>
       /\ batchProgress' = 0
       /\ view' = "BATCH_PROCESSING"
       /\ status' = "ANALYZING"
       /\ UNCHANGED <<currentFile, currentResult, history>>
       /\ ProcessQueueEffect(TRUE, tasks, NewRun(run.id + 1, files), run.id + 1)

\* The synchronous part, run when the 800 ms timer of handleFiles fires.
HandleScanStart(files) ==
  IF Len(files) = 0
  THEN UNCHANGED <<view, status, currentFile, currentResult, batchQueue,
                   batchResults, batchProgress, history, tasks, run>>
  ELSE IF Len(files) = 1
  THEN /\ status' = "ANALYZING"
       /\ view' = "SCANNING"
       /\ UNCHANGED <<currentFile, currentResult, batchQueue, batchResults,
                      batchProgress, history>>
       /\ ProcessQueueEffect(FALSE, Append(tasks, SingleTask(files[1])), run, run.id)
  ELSE /\ batchQueue' = files
       /\ batchResults' = <<>>
       /\ batchProgress' = 0
       /\ view' = "BATCH_PROCESSING"
       /\ status' = "ANALYZING"
       /\ UNCHANGED <<currentFile, currentResult, history>>
       /\ ProcessQueueEffect(TRUE, tasks, NewRun(run.id + 1, files), run.id + 1)

\* The timers of handleFiles fire in the order they were set.
TimerFire ==
  /\ Len(timers) > 0
  /\ timers' = Tail(timers)
  /\ lastOp' = Op("handleScanStart", Head(timers), <<>>, 0, Null, 0)
  /\ HandleScanStart(Head(timers))
  /\ UNCHANGED <<selections, injections>>
  /\ RenderEffects

\* ---------------------------------------------------- single scan, async
\* await fileToBase64(file) resolved with base64; setCurrentFile({...}); the
\* call goes on to analyzeContent(base64, effectiveMimeType)
SinglePreDone(i) ==
  /\ i \in 1..Len(tasks)
  /\ tasks[i].kind = "single" /\ tasks[i].pc = "pre"
  /\ \E base64 \in FileToBase64(tasks[i].file) :
       LET request == AnalyzeRequest(tasks[i].file, base64) IN
       /\ currentFile' = FileData(tasks[i].file, base64)
       /\ lastOp' = [Op("fileToBase64", <<tasks[i].file>>, <<>>, 0, Null, 0)
                     EXCEPT !.request = request]
       /\ UNCHANGED <<view, status, currentResult, batchQueue, batchResults,
                      batchProgress, history, timers, selections, injections>>
       /\ ProcessQueueEffect(FALSE,
            SetRequest(SetPc(tasks, i, "ana"), i, request), run, run.id)

\* A plausible slip: the result is shown but never recorded in the history.
SingleAnaDoneUnrecorded(i, r) ==
  /\ i \in 1..Len(tasks)
  /\ tasks[i].kind = "single" /\ tasks[i].pc = "ana"
  /\ r = ServiceResult(tasks[i].file)
  /\ currentResult' = r
  /\ history' = history
  /\ status' = "COMPLETE"
  /\ view' = "RESULT"
  /\ lastOp' = [Op("scanComplete", <<tasks[i].file>>, <<>>, 0, r, 0)
                EXCEPT !.request = tasks[i].request]
  /\ UNCHANGED <<currentFile, batchQueue, batchResults, batchProgress,
                 timers, selections, injections>>
  /\ ProcessQueueEffect(FALSE, RemoveAt(tasks, i), run, run.id)

\* await analyzeContent(...) resolved with result r
SingleAnaDone(i, r) ==
  /\ i \in 1..Len(tasks)
  /\ tasks[i].kind = "single" /\ tasks[i].pc = "ana"
  /\ r = ServiceResult(tasks[i].file)
  /\ currentResult' = r
  /\ history' = <<HistoryItem(r, tasks[i].file)>> \o history
  /\ status' = "COMPLETE"
  /\ view' = "RESULT"
  /\ lastOp' = [Op("scanComplete", <<tasks[i].file>>, <<>>, 0, r, 0)
                EXCEPT !.request = tasks[i].request]
  /\ UNCHANGED <<currentFile, batchQueue, batchResults, batchProgress,
                 timers, selections, injections>>
  /\ ProcessQueueEffect(FALSE, RemoveAt(tasks, i), run, run.id)

\* A plausible slip: the catch block forgets setView(HOME).
SingleCatchStaysPut(i) ==
  /\ i \in 1..Len(tasks)
  /\ tasks[i].kind = "single"
  /\ status' = "ERROR"
  /\ view' = view
  /\ lastOp' = Op("scanError", <<tasks[i].file>>, <<>>, 0, Null, 1)
  /\ UNCHANGED <<currentFile, currentResult, batchQueue, batchResults,
                 batchProgress, history, timers, selections, injections>>
  /\ ProcessQueueEffect(FALSE, RemoveAt(tasks, i), run, run.id)

\* catch (error): fileToBase64 or analyzeContent rejected
SingleCatch(i) ==
  /\ i \in 1..Len(tasks)
  /\ tasks[i].kind = "single"
  /\ status' = "ERROR"
  /\ view' = "HOME"
  /\ lastOp' = Op("scanError", <<tasks[i].file>>, <<>>, 0, Null, 1)
  /\ UNCHANGED <<currentFile, currentResult, batchQueue, batchResults,
                 batchProgress, history, timers, selections, injections>>
  /\ ProcessQueueEffect(FALSE, RemoveAt(tasks, i), run, run.id)

\* ------------------------------------------------ processQueue, async part
\* A plausible slip: the end of the batch changes the view and forgets the
\* status.
BatchAdvanceKeepsStatus(remaining) ==
  /\ batchQueue' = remaining
  /\ batchProgress' = batchProgress + 1
  /\ status' = status
  /\ view' = IF Len(remaining) = 0 THEN "BATCH_RESULT" ELSE view

\* setBatchQueue(remaining); setBatchProgress(prev => prev + 1);
\* if (remaining.length === 0) { setView(BATCH_RESULT); setStatus(COMPLETE) }
BatchAdvance(remaining) ==
  /\ batchQueue' = remaining
  /\ batchProgress' = batchProgress + 1
  /\ IF Len(remaining) = 0
     THEN view' = "BATCH_RESULT" /\ status' = "COMPLETE"
     ELSE view' = view /\ status' = status

\* the try block ran to its end: fileToBase64 resolved with base64, then
\* analyzeContent(base64, mimeType) resolved with r (no state is touched
\* between the two awaits)
BatchItemDone(i, r) ==
  /\ i \in 1..Len(tasks)
  /\ tasks[i].kind = "batch"
  /\ r = ServiceResult(tasks[i].file)
  /\ batchResults' = Append(batchResults, BatchAnalysisResult(tasks[i].file, r))
  /\ history' = <<HistoryItem(r, tasks[i].file)>> \o history
  /\ BatchAdvance(tasks[i].remaining)
  /\ \E base64 \in FileToBase64(tasks[i].file) :
       lastOp' = [Op("batchItemComplete", <<tasks[i].file>>, tasks[i].remaining,
                     tasks[i].bid, r, 0)
                  EXCEPT !.request = AnalyzeRequest(tasks[i].file, base64)]
  /\ UNCHANGED <<currentFile, currentResult, timers, selections, injections>>
  /\ ProcessQueueEffect(TRUE, RemoveAt(tasks, i),
       IF tasks[i].bid = run.id THEN [run EXCEPT !.hist = @ + 1] ELSE run,
       tasks[i].bid)

\* catch (error): fileToBase64 or analyzeContent rejected; logged only
BatchItemFail(i) ==
  /\ i \in 1..Len(tasks)
  /\ tasks[i].kind = "batch"
  /\ BatchAdvance(tasks[i].remaining)
  /\ lastOp' = Op("batchItemError", <<tasks[i].file>>, tasks[i].remaining,
                  tasks[i].bid, Null, 0)
  /\ UNCHANGED <<currentFile, currentResult, batchResults, history, timers,
                 selections, injections>>
  /\ ProcessQueueEffect(TRUE, RemoveAt(tasks, i),
       IF tasks[i].bid = run.id THEN [run EXCEPT !.failed = @ + 1] ELSE run,
       tasks[i].bid)

\* ------------------------------------------------------------ resetScanner
\* A plausible slip: the reset also wipes the ledger.
ResetScannerWipes ==
  /\ mounted
  /\ \/ view = "RESULT" /\ currentResult # Null /\ currentFile # Null
     \/ view = "BATCH_RESULT"
  /\ currentFile' = Null
  /\ currentResult' = Null
  /\ batchQueue' = <<>>
  /\ batchResults' = <<>>
  /\ history' = <<>>
  /\ status' = "IDLE"
  /\ view' = "HOME"
  /\ lastOp' = Op("resetScanner", <<>>, <<>>, 0, Null, 0)
  /\ UNCHANGED <<batchProgress, timers, selections, injections>>
  /\ ProcessQueueEffect(TRUE, tasks, run, run.id)
  /\ RenderEffects

\* Offered by ResultView and BatchResults (their onReset).
ResetScanner ==
  /\ mounted
  /\ \/ view = "RESULT" /\ currentResult # Null /\ currentFile # Null
     \/ view = "BATCH_RESULT"
  /\ currentFile' = Null
  /\ currentResult' = Null
  /\ batchQueue' = <<>>
  /\ batchResults' = <<>>
  /\ status' = "IDLE"
  /\ view' = "HOME"
  /\ lastOp' = Op("resetScanner", <<>>, <<>>, 0, Null, 0)
  /\ UNCHANGED <<batchProgress, history, timers, selections, injections>>
  /\ ProcessQueueEffect(TRUE, tasks, run, run.id)
  /\ RenderEffects

\* ---------------------------------------------------------------- Layout
\* The views the navigation bar leads to.
NavTargets == {"DASHBOARD", "SETTINGS"}

\* A plausible slip: leaving for another view also puts the status back.
NavigateResets(target) ==
  /\ mounted
  /\ target \in NavTargets
  /\ view # target
  /\ view' = target
  /\ status' = "IDLE"
  /\ lastOp' = Op("navigate", <<>>, <<>>, 0, Null, 0)
  /\ UNCHANGED <<currentFile, currentResult, batchQueue, batchResults,
                 batchProgress, history, timers, selections, injections>>
  /\ ProcessQueueEffect(FALSE, tasks, run, run.id)
  /\ RenderEffects

\* <Layout currentView={view} onNavigate={setView}>
Navigate(target) ==
  /\ mounted
  /\ target \in NavTargets
  /\ view # target
  /\ view' = target
  /\ lastOp' = Op("navigate", <<>>, <<>>, 0, Null, 0)
  /\ UNCHANGED <<status, currentFile, currentResult, batchQueue, batchResults,
                 batchProgress, history, timers, selections, injections>>
  /\ ProcessQueueEffect(FALSE, tasks, run, run.id)
  /\ RenderEffects

\* ------------------------------------------------------ window.handleResult
\* parsedData: the value given, JSON.parse of the string given, or the keyword
\* heuristic for a string JSON.parse rejects.
ParsedData(p) ==
  IF p.kind \in {"object", "json"} THEN p.value
  ELSE IF IsJSON(p.text) THEN JSONParse(p.text)
  ELSE Heuristic(p.text)

\* parsedData.f || d, for a field whose values are objects or arrays (truthy)
OrDefault(pd, f, d) == IF f \in DOMAIN pd THEN pd[f] ELSE d

\* parsedData.f || d, for a field whose values are strings ("" is falsy)
OrDefaultText(pd, f, d) == IF f \in DOMAIN pd /\ pd[f] # "" THEN pd[f] ELSE d

\* const mappedResult: AnalysisResult = {...}, for a parsedData that is not
\* null.  A score, where the payloads have one, is a number.
MappedResult(pd) ==
  LET isAI == "isAI" \in DOMAIN pd /\ pd.isAI
  IN [isAI |-> isAI,
      score |-> IF "score" \in DOMAIN pd THEN pd.score
                ELSE IF isAI THEN 98 ELSE 2,
      verdict |-> OrDefaultText(pd, "verdict",
                    IF isAI THEN "SYNTHETIC DETECTED" ELSE "AUTHENTIC"),
      reasoning |-> OrDefaultText(pd, "reasoning",
                      "Analysis provided by iOS Neural Engine Bridge."),
      technicalDetails |-> OrDefault(pd, "technicalDetails",
        <<"External verification complete", "Bridge data integrity: OK">>),
      modelSignature |-> OrDefault(pd, "modelSignature",
        [name |-> "External Model", confidence |-> 0]),
      forensicMetrics |-> OrDefault(pd, "forensicMetrics",
        [biometricIntegrity |-> 50, textureFidelity |-> 50,
         lightingConsistency |-> 50, physicalLogic |-> 50]),
      humanPerception |-> OrDefault(pd, "humanPerception",
        [realnessScore |-> 50, suspiciousnessScore |-> 50,
         perceptualInconsistency |-> 0, artifactLevel |-> 0]),
      suspiciousRegions |-> OrDefault(pd, "suspiciousRegions", <<>>),
      watermark |-> OrDefault(pd, "watermark",
        [detected |-> FALSE, signatures |-> <<>>]),
      timestamp |-> LocalTimestamp]

\* How the call of originalHandleResult(result) can go.
LegacyOutcomes ==
  IF originalHandleResult = "none" THEN {"absent"} ELSE {"returned", "threw"}

\* The adapter the bridge effect installs, called by the host with p.
HandleResult(p) ==
  /\ mounted /\ windowHandleResult = "adapter"
  /\ injections < MaxInjections
  /\ injections' = injections + 1
  /\ selections' = selections
  /\ \E o \in LegacyOutcomes :
       lastOp' = [Op("handleResult", <<>>, <<>>, 0,
                     IF ParsedData(p) = Null THEN Null
                     ELSE MappedResult(ParsedData(p)), 0)
                  EXCEPT !.payload = p, !.legacy = o]
  /\ IF ParsedData(p) = Null
     THEN \* parsedData.isAI throws; the outer catch only logs
          UNCHANGED <<view, status, currentFile, currentResult, batchQueue,
                      batchResults, batchProgress, history, timers, tasks, run>>
     ELSE /\ currentFile' = IF currentFile = Null THEN PlaceholderFile
                            ELSE currentFile
          /\ currentResult' = MappedResult(ParsedData(p))
          /\ status' = "COMPLETE"
          /\ view' = "RESULT"
          /\ history' = <<HistoryItem(MappedResult(ParsedData(p)), "")>> \o history
          /\ UNCHANGED <<batchQueue, batchResults, batchProgress, timers>>
          /\ ProcessQueueEffect(FALSE, tasks, run, run.id)
  /\ RenderEffects

\* The host calls window.handleResult while index.html's own handler is in
\* the slot (App is not mounted): no state of App is touched.
LegacyHandleResult(p) ==
  /\ ~mounted /\ windowHandleResult = "legacy"
  /\ injections < MaxInjections
  /\ injections' = injections + 1
  /\ \E o \in {"returned", "threw"} :
       lastOp' = [Op("legacyHandleResult", <<>>, <<>>, 0, Null, 0)
                  EXCEPT !.payload = p, !.legacy = o]
  /\ UNCHANGED <<view, status, currentFile, currentResult, batchQueue,
                 batchResults, batchProgress, history, timers, tasks, run,
                 selections>>
  /\ UNCHANGED bridgeVars
  /\ UNCHANGED scanVars
  /\ UNCHANGED serviceVars
  /\ UNCHANGED panelVars

\* ------------------------------------------------- App's own life
\* App unmounts: the cleanup runs.  The calls and timers still pending can
\* only set the state of a component that is gone, so they are dropped.
Unmount ==
  /\ mounted
  /\ mounted' = FALSE
  /\ windowHandleResult' = CleanupSlot(originalHandleResult)
  /\ timers' = <<>>
  /\ tasks' = <<>>
  /\ lastOp' = Op("unmount", <<>>, <<>>, 0, Null, 0)
  /\ UNCHANGED <<view, status, currentFile, currentResult, batchQueue,
                 batchResults, batchProgress, history, run, selections,
                 injections, originalHandleResult, indexHandler>>
  /\ UNCHANGED scanVars
  /\ UNCHANGED serviceVars
  /\ UNCHANGED panelVars

\* App mounts again: every useState starts over and the bridge effect
\* captures what is in the slot.
Mount ==
  /\ ~mounted
  /\ mounted' = TRUE
  /\ view' = "HOME"
  /\ status' = "IDLE"
  /\ currentFile' = Null
  /\ currentResult' = Null
  /\ batchQueue' = <<>>
  /\ batchResults' = <<>>
  /\ batchProgress' = 0
  /\ history' = <<>>
  /\ originalHandleResult' = windowHandleResult
  /\ windowHandleResult' = "adapter"
  /\ lastOp' = Op("mount", <<>>, <<>>, 0, Null, 0)
  /\ scanStep' = 0
  /\ scanText' = ""
  /\ capturedScanStep' = 0
  /\ UNCHANGED <<timers, tasks, run, selections, injections, indexHandler>>
  /\ UNCHANGED serviceVars
  /\ UNCHANGED panelVars

\* ------------------------------------------------- the interval callback
\* setInterval(() => { setScanStep((prev) => (prev + 1) % steps.length);
\* setScanText(steps[scanStep % steps.length]) }, 500): the updater gets the
\* current cursor, the text is picked with the scanStep the callback closed
\* over.  The interval lives while the view is SCANNING.
ScanTick ==
  /\ mounted
  /\ view = "SCANNING"
  /\ scanStep' = (scanStep + 1) % Len(FORENSIC_STEPS)
  /\ scanText' = FORENSIC_STEPS[(capturedScanStep % Len(FORENSIC_STEPS)) + 1]
  /\ lastOp' = Op("scanTick", <<>>, <<>>, 0, Null, 0)
  /\ UNCHANGED <<view, status, currentFile, currentResult, batchQueue,
                 batchResults, batchProgress, history, timers, tasks, run,
                 selections, injections, capturedScanStep>>
  /\ UNCHANGED bridgeVars
  /\ UNCHANGED serviceVars
  /\ UNCHANGED panelVars

\* -------------------------------------------------------------------- Next
\* A suspended call resumes: its await resolves or rejects.
TaskStep ==
  /\ \E i \in 1..Len(tasks) :
       \/ SinglePreDone(i)
       \/ SingleAnaDone(i, ServiceResult(tasks[i].file))
       \/ SingleCatch(i)
       \/ BatchItemDone(i, ServiceResult(tasks[i].file))
       \/ BatchItemFail(i)
  /\ RenderEffects

Next ==
  \/ \E fl \in FileLists : HandleFiles(fl)
  \/ TimerFire
  \/ TaskStep
  \/ ResetScanner
  \/ \E p \in Payloads : HandleResult(p)
  \/ \E t \in NavTargets : Navigate(t)

Spec == Init /\ [][Next]_vars

\* Every timer fires and every preprocessing and analysis call returns.
FairSpec == Spec /\ WF_vars(TimerFire) /\ WF_vars(TaskStep)

\* -------------------------------------------------- the bridge on its own
\* The bridge with everything a host can send, beside single scans and
\* resets, on a page with or without a handler of its own, App mounting and
\* unmounting.
BridgeInit == \E h \in {"none", "legacy"} : InitWith(h)

BridgeNext ==
  \/ \E f \in Files : HandleFiles(<<f>>)
  \/ TimerFire
  \/ TaskStep
  \/ ResetScanner
  \/ \E p \in BridgePayloads : HandleResult(p)
  \/ \E p \in BridgePayloads : LegacyHandleResult(p)
  \/ Unmount
  \/ Mount

BridgeSpec == BridgeInit /\ [][BridgeNext]_vars

\* ------------------------------------------------- the scanning screen
\* Single scans with the interval of the scanning screen ticking, beside
\* resets, navigation and the bridge.
ScanNext ==
  \/ \E f \in Files : HandleFiles(<<f>>)
  \/ TimerFire
  \/ TaskStep
  \/ ScanTick
  \/ ResetScanner
  \/ \E p \in Payloads : HandleResult(p)
  \/ \E t \in NavTargets : Navigate(t)

ScanSpec == Init /\ [][ScanNext]_vars

\* ------------------------------------------------------------ Dashboard
\* Array.prototype.reverse
Reverse(s) == [k \in 1..Len(s) |-> s[Len(s) + 1 - k]]

\* "Recent Analysis Logs": history.slice().reverse().map(...), the cards in
\* the order they are laid out.
RecentAnalysisLogs(h) == Reverse(h)

\* ------------------------------------------- geminiService.ts on its own
MAX_WIDTH == 1024

MAX_HEIGHT == 1024

\* Widths and heights of the images tried.
ImageSizes == {1, 2, 561, 1000, 1023, 1024, 1025, 1122, 1500, 2048, 3000, 4000}

PowersOfTwo == {1, 2, 4, 8, 16, 32, 64, 128, 256, 512, 1024, 2048, 4096}

\* a *= max / b, then canvas.width = a (or canvas.height = a): the double is
\* truncated to an integer.  max / b is rounded once and the product once
\* more, so where the exact value a * max / b is a whole number the double
\* can fall just below it (561 * (1024 / 1122) is 511.99999999999994) and
\* the canvas gets one pixel less; elsewhere the double is too close to the
\* exact value to truncate differently.  max / b is exact when b is a power
\* of two.
Scaled(a, max, b) ==
  LET q == (a * max) \div b
  IN IF (a * max) % b = 0 /\ b \notin PowersOfTwo /\ q > 0
     THEN {q, q - 1}
     ELSE {q}

\* A plausible slip: only the width is looked at.
OutputSizeWidthOnly(img) ==
  IF img.width > MAX_WIDTH
  THEN {[width |-> MAX_WIDTH, height |-> h] :
          h \in Scaled(img.height, MAX_WIDTH, img.width)}
  ELSE {img}

\* img.onload: the sizes the canvas can get for an image.
OutputSize(img) ==
  IF img.width > img.height
  THEN IF img.width > MAX_WIDTH
       THEN {[width |-> MAX_WIDTH, height |-> h] :
               h \in Scaled(img.height, MAX_WIDTH, img.width)}
       ELSE {img}
  ELSE IF img.height > MAX_HEIGHT
       THEN {[width |-> w, height |-> MAX_HEIGHT] :
               w \in Scaled(img.width, MAX_HEIGHT, img.height)}
       ELSE {img}

\* optimizeImageForMobile sizes the canvas for the image it has decoded.
OptimizeImage ==
  /\ image # NoImage
  /\ canvas = Null
  /\ canvas' \in OutputSize(image)
  /\ UNCHANGED <<image, call>>
  /\ UNCHANGED appVars
  /\ UNCHANGED panelVars

\* response.text: undefined, or a string: the JSON text of an object, or
\* another string (the empty one, the text null, a text that is no JSON).
ResponseBodies ==
  {[kind |-> "none"]}
    \cup {[kind |-> "text", text |-> t] :
            t \in {<<>>, <<"n", "u", "l", "l">>, <<"f", "a", "i", "l">>}}
    \cup {[kind |-> "json", value |-> v] :
            v \in {ResponseData(f) : f \in Files} \cup {FullVerdict}}

\* How await ai.models.generateContent(...) can end: it rejects, or it
\* resolves with a response.
Responses ==
  {[kind |-> "rejected"]} \cup {[kind |-> "resolved", body |-> b] : b \in ResponseBodies}

\* The requests the App makes of analyzeContent.
Requests == UNION {{AnalyzeRequest(f, b) : b \in FileToBase64(f)} : f \in Files}

\* const response = await ai.models.generateContent({...}): one request
\* goes out and its outcome comes back.
GenerateContent ==
  /\ call.pc = "start"
  /\ \E r \in Responses :
       call' = [call EXCEPT !.pc = "responded", !.requests = @ + 1,
                             !.response = r]
  /\ UNCHANGED <<image, canvas>>
  /\ UNCHANGED appVars
  /\ UNCHANGED panelVars

\* A plausible slip: the catch block tries once more before giving up.
AnalyzeCatchRetries(c, error) ==
  IF c.requests < 2
  THEN [c EXCEPT !.pc = "start"]
  ELSE [c EXCEPT !.pc = "threw", !.error = error]

\* catch (error) { console.error(...); throw error }
AnalyzeCatch(c, error) == [c EXCEPT !.pc = "threw", !.error = error]

\* !text
NoText(b) == b.kind = "none" \/ (b.kind = "text" /\ b.text = <<>>)

\* JSON.parse(text) throws
ParseFails(b) == b.kind = "text" /\ ~IsJSON(b.text)

\* JSON.parse(text)
ParsedBody(b) == IF b.kind = "json" THEN b.value ELSE JSONParse(b.text)

\* The rest of analyzeContent, from the await on.
AnalyzeFinish ==
  /\ call.pc = "responded"
  /\ call' =
       IF call.response.kind = "rejected"
       THEN AnalyzeCatch(call, "rejected")
       ELSE IF NoText(call.response.body)
       THEN AnalyzeCatch(call, "No response from AI")
       ELSE IF ParseFails(call.response.body)
       THEN AnalyzeCatch(call, "SyntaxError")
       ELSE [call EXCEPT !.pc = "returned",
                         !.result = Stamp(ParsedBody(call.response.body))]
  /\ UNCHANGED <<image, canvas>>
  /\ UNCHANGED appVars
  /\ UNCHANGED panelVars

\* An image has been decoded and analyzeContent has been called.
ServiceInit ==
  /\ AppInit("legacy")
  /\ image \in {[width |-> w, height |-> h] : w \in ImageSizes, h \in ImageSizes}
  /\ canvas = Null
  /\ \E rq \in Requests :
       call = [NoCall EXCEPT !.pc = "start", !.request = rq]
  /\ PanelInit

ServiceNext ==
  \/ OptimizeImage
  \/ GenerateContent
  \/ AnalyzeFinish

ServiceSpec == ServiceInit /\ [][ServiceNext]_vars

\* ------------------------------------------------------- Integrations
\* toggleStatus(key): an active card goes inactive; any other card goes to
\* connecting and a timer is set that will make it active 2000 ms later.
ToggleStatus(key) ==
  /\ toggles < MaxToggles
  /\ toggles' = toggles + 1
  /\ IF statuses[key] = "active"
     THEN /\ statuses' = [statuses EXCEPT ![key] = "inactive"]
          /\ connectTimers' = connectTimers
     ELSE /\ statuses' = [statuses EXCEPT ![key] = "connecting"]
          /\ connectTimers' = Append(connectTimers, key)
  /\ panelOp' = [op |-> "toggleStatus", key |-> key]
  /\ UNCHANGED appVars
  /\ UNCHANGED serviceVars

\* setTimeout(() => setStatuses(prev => ({ ...prev, [key]: 'active' })), 2000):
\* the timers have one delay, so they fire in the order they were set.
ConnectTimerFire ==
  /\ Len(connectTimers) > 0
  /\ statuses' = [statuses EXCEPT ![Head(connectTimers)] = "active"]
  /\ connectTimers' = Tail(connectTimers)
  /\ panelOp' = [op |-> "connectTimer", key |-> Head(connectTimers)]
  /\ UNCHANGED toggles
  /\ UNCHANGED appVars
  /\ UNCHANGED serviceVars

PanelNext ==
  \/ \E key \in IntegrationKeys : ToggleStatus(key)
  \/ ConnectTimerFire

PanelSpec == Init /\ [][PanelNext]_vars

\* ================================================================= claims
BatchItemsInFlight == {i \in 1..Len(tasks) : tasks[i].kind = "batch"}

\* The batch started last has just ended: the item holding the end of its
\* queue has completed or failed.
BatchEnded ==
  /\ lastOp.op \in {"batchItemComplete", "batchItemError"}
  /\ lastOp.remaining = <<>>
  /\ lastOp.bid = run.id

\* C1: when a batch of N files ends, preprocessing+analysis has been started
\* exactly once for each of its files, in input order, and batchProgress is N.
C1_BatchProcessesEachFileOnce ==
  BatchEnded => run.started = run.files /\ batchProgress = Len(run.files)

\* C2: at no moment are two batch items in flight.
C2_OneBatchItemInFlight == Cardinality(BatchItemsInFlight) <= 1

\* C3: when a batch of N files with k failed files ends, the batch results
\* list has exactly N-k entries and the batch has added exactly N-k history
\* items; a failed file leaves the queue holding only the files after it.
C3_BatchResultsCount ==
  /\ BatchEnded =>
       /\ Len(batchResults) = Len(run.files) - run.failed
       /\ run.hist = Len(run.files) - run.failed
  /\ lastOp.op = "batchItemError" => batchQueue = lastOp.remaining

\* C4: handleScanStart with one file makes the view SCANNING, with two or
\* more files makes the view BATCH_PROCESSING and the queue the whole input
\* list; a selection of zero files changes nothing of the program's state.
C4_RoutingByFileCount ==
  [][/\ lastOp'.op = "handleScanStart" /\ Len(lastOp'.files) = 1
          => view' = "SCANNING" /\ batchQueue' = batchQueue
     /\ lastOp'.op = "handleScanStart" /\ Len(lastOp'.files) >= 2
          => view' = "BATCH_PROCESSING" /\ batchQueue' = lastOp'.files
     /\ lastOp'.op = "handleFiles" /\ Len(lastOp'.files) = 0
          => progVars' = progVars]_vars

\* A batch of at least two files has just been routed to the batch path.
C4_Witness ==
  /\ lastOp.op = "handleScanStart"
  /\ Len(lastOp.files) >= 2
  /\ view = "BATCH_PROCESSING"
  /\ batchQueue = lastOp.files

\* C5: every step keeps the existing history items, in order, and adds at
\* most one; a successful single scan, a successful batch item and a bridge
\* injection each add exactly one.
C5_HistoryAppendOnly ==
  [][/\ \/ history' = history
        \/ Len(history') = Len(history) + 1 /\ Tail(history') = history
        \/ Len(history') = Len(history) + 1
             /\ SubSeq(history', 1, Len(history)) = history
     /\ lastOp'.op \in {"scanComplete", "batchItemComplete", "handleResult"}
          => Len(history') = Len(history) + 1]_vars

\* C6: every batch that is started eventually reaches view BATCH_RESULT with
\* status COMPLETE (every call returns: FairSpec).
C6_BatchEventuallyCompletes ==
  [](lastOp.op = "handleScanStart" /\ Len(lastOp.files) >= 2
       => <>(view = "BATCH_RESULT" /\ status = "COMPLETE"))

\* C7: resetScanner clears the current file, the current result, the batch
\* queue and the batch results, makes the status IDLE and the view HOME, and
\* leaves the history as it was.
C7_ResetEffect ==
  [][lastOp'.op = "resetScanner"
       => /\ currentFile' = Null
          /\ currentResult' = Null
          /\ batchQueue' = <<>>
          /\ batchResults' = <<>>
          /\ status' = "IDLE"
          /\ view' = "HOME"
          /\ history' = history]_vars

\* A reset has just run on a state with a history to keep.
C7_Witness ==
  /\ lastOp.op = "resetScanner"
  /\ Len(history) > 0
  /\ currentFile = Null /\ currentResult = Null
  /\ view = "HOME" /\ status = "IDLE"

\* C8: a failed single scan ends with status ERROR and view HOME, raises one
\* alert, starts no new call (the only change to the calls in flight is that
\* the failed one is gone), and leaves history and current result unchanged.
C8_SingleScanFailure ==
  [][lastOp'.op = "scanError"
       => /\ status' = "ERROR"
          /\ view' = "HOME"
          /\ lastOp'.alerts = 1
          /\ \E i \in 1..Len(tasks) :
               /\ tasks[i].kind = "single"
               /\ tasks[i].file = lastOp'.files[1]
               /\ tasks' = RemoveAt(tasks, i)
          /\ history' = history
          /\ currentResult' = currentResult]_vars

\* A single scan has just failed with a result and a history in place.
C8_Witness ==
  /\ lastOp.op = "scanError"
  /\ status = "ERROR" /\ view = "HOME"
  /\ Len(history) > 0 /\ currentResult # Null

\* C9: a failed batch item raises no alert and, when files remain after it,
\* changes neither the view nor the status and the runner starts on the next
\* file of the queue.
C9_BatchFailureSilent ==
  [][lastOp'.op = "batchItemError"
       => /\ lastOp'.alerts = 0
          /\ lastOp'.remaining # <<>>
               => /\ view' = view
                  /\ status' = status
                  /\ Len(tasks') = Len(tasks)
                  /\ tasks'[Len(tasks')].kind = "batch"
                  /\ tasks'[Len(tasks')].file = Head(lastOp'.remaining)]_vars

C11_UploadingThenAnalyzing ==
  [][/\ lastOp'.op = "handleScanStart" => status' = "UPLOADING"
     /\ status' = "ANALYZING" /\ status # "ANALYZING"
          => status = "UPLOADING"]_vars

SingleScansInFlight == {i \in 1..Len(tasks) : tasks[i].kind = "single"}

\* C12: at no moment are two single-mode scans in flight.
C12_OneSingleScanInFlight == Cardinality(SingleScansInFlight) <= 1

\* C13: a bridge injection calls the captured legacy handler, when there is
\* one, before anything else, and when that call throws the injection still
\* normalises the payload, sets the current result and the view and puts one
\* item on the history.
C13_LegacyFirstAndIsolated ==
  [][lastOp'.op = "handleResult"
       => /\ originalHandleResult # "none"
               => lastOp'.legacy \in {"returned", "threw"}
          /\ lastOp'.legacy = "threw"
               => /\ lastOp'.result # Null
                  /\ currentResult' = lastOp'.result
                  /\ view' = "RESULT"
                  /\ Len(history') = Len(history) + 1
                  /\ Tail(history') = history]_vars

\* C14: whenever the bridge effect is torn down, window.handleResult holds
\* what index.html left there before the first install (a handler or none),
\* however many times the effect was installed and torn down before; while
\* the adapter is installed, that handler is the one it holds as legacy.
C14_TeardownRestores ==
  /\ ~mounted => windowHandleResult = indexHandler
  /\ mounted => windowHandleResult = "adapter"
                  /\ originalHandleResult = indexHandler

\* App has been unmounted after the bridge effect was re-installed for a
\* loaded file, on a page with a handler of its own.
C14_Witness ==
  /\ ~mounted
  /\ lastOp.op = "unmount"
  /\ currentFile # Null
  /\ indexHandler = "legacy"
  /\ windowHandleResult = "legacy"

\* C15: every bridge injection, whatever its payload, gives a normalised
\* result, makes it the current result, makes the view RESULT and puts
\* exactly one item on the history.
C15_EveryPayloadRecovered ==
  [][lastOp'.op = "handleResult"
       => /\ lastOp'.result # Null
          /\ currentResult' = lastOp'.result
          /\ view' = "RESULT"
          /\ Len(history') = Len(history) + 1]_vars

\* the string has "ai" in it, in either case of each letter
HasAI(t) ==
  \E k \in 1..(Len(t) - 1) : t[k] \in {"a", "A"} /\ t[k + 1] \in {"i", "I"}

\* the string has "synthetic" in it, in either case of each letter
HasSynthetic(t) ==
  \E k \in 0..(Len(t) - 9) :
    /\ t[k + 1] \in {"s", "S"} /\ t[k + 2] \in {"y", "Y"}
    /\ t[k + 3] \in {"n", "N"} /\ t[k + 4] \in {"t", "T"}
    /\ t[k + 5] \in {"h", "H"} /\ t[k + 6] \in {"e", "E"}
    /\ t[k + 7] \in {"t", "T"} /\ t[k + 8] \in {"i", "I"}
    /\ t[k + 9] \in {"c", "C"}

\* The bridge has just been given a string that is not JSON.
InjectedText ==
  /\ lastOp.op = "handleResult"
  /\ lastOp.payload.kind = "text"
  /\ ~IsJSON(lastOp.payload.text)

\* C16: after a bridge injection with a string that is not JSON, the current
\* result and the new history item are classified positive exactly when the
\* string contains "ai" or "synthetic" in any letter case, with score 95 when
\* positive and 5 when negative.
C16_KeywordHeuristic ==
  InjectedText =>
    LET positive == HasAI(lastOp.payload.text) \/ HasSynthetic(lastOp.payload.text)
    IN /\ currentResult.isAI = positive
       /\ currentResult.score = (IF positive THEN 95 ELSE 5)
       /\ history[1].isAI = positive
       /\ history[1].score = (IF positive THEN 95 ELSE 5)

\* "SYNTHETIC media" has just been injected and classified positive on the
\* keyword in capitals.
C16_Witness ==
  /\ InjectedText
  /\ HasSynthetic(lastOp.payload.text) /\ ~HasAI(lastOp.payload.text)
  /\ currentResult.isAI /\ currentResult.score = 95
  /\ view = "RESULT"

\* The bridge has just been given an object, or the JSON text of one.
InjectedObject ==
  /\ lastOp.op = "handleResult"
  /\ lastOp.payload.kind \in {"object", "json"}
  /\ lastOp.payload.value # Null

ForensicMetricNames ==
  {"biometricIntegrity", "textureFidelity", "lightingConsistency",
   "physicalLogic"}

HumanPerceptionNames ==
  {"realnessScore", "suspiciousnessScore", "perceptualInconsistency",
   "artifactLevel"}

\* the payload v supplies sub-metric m of a block
Supplied(v, block, m) == block \in DOMAIN v /\ m \in DOMAIN v[block]

\* C17: after a bridge injection of an object, every forensic and
\* human-perception sub-metric the payload did not supply is 50 in the
\* result, every list it did not supply (technical details, suspicious
\* regions, watermark signatures) is empty, and a verdict text it did not
\* supply is the one that goes with the classification.
C17_NeutralDefaults ==
  InjectedObject =>
    LET v == lastOp.payload.value
        r == currentResult
    IN /\ \A m \in ForensicMetricNames :
            ~Supplied(v, "forensicMetrics", m)
              => /\ m \in DOMAIN r.forensicMetrics
                 /\ r.forensicMetrics[m] = 50
       /\ \A m \in HumanPerceptionNames :
            ~Supplied(v, "humanPerception", m)
              => /\ m \in DOMAIN r.humanPerception
                 /\ r.humanPerception[m] = 50
       /\ "technicalDetails" \notin DOMAIN v => r.technicalDetails = <<>>
       /\ "suspiciousRegions" \notin DOMAIN v => r.suspiciousRegions = <<>>
       /\ "watermark" \notin DOMAIN v => r.watermark.signatures = <<>>
       /\ "verdict" \notin DOMAIN v
            => r.verdict = (IF r.isAI THEN "SYNTHETIC DETECTED" ELSE "AUTHENTIC")

\* the fields of an AnalysisResult a payload can carry
ResultFields == DOMAIN FullVerdict

\* v has every field an AnalysisResult must have
ValidVerdict(v) == (ResultFields \ {"videoAnalysis"}) \subseteq DOMAIN v

\* C18: after a bridge injection of a valid structured payload, the new
\* history item carries the payload's value in every AnalysisResult field the
\* payload has, the videoAnalysis block included when it is there.
C18_PayloadFieldsCarried ==
  InjectedObject /\ ValidVerdict(lastOp.payload.value) =>
    \A f \in (DOMAIN lastOp.payload.value) \cap ResultFields :
      /\ f \in DOMAIN history[1]
      /\ history[1][f] = lastOp.payload.value[f]

\* C19: a bridge injection with no file loaded makes the current file the
\* placeholder, one with a file loaded leaves the current file as it is, and
\* when it makes the view RESULT the current file is set.
C19_PlaceholderFile ==
  [][lastOp'.op = "handleResult"
       => /\ currentFile = Null => currentFile' = PlaceholderFile
          /\ currentFile # Null => currentFile' = currentFile
          /\ view' = "RESULT" => currentFile' # Null]_vars

\* C20: when the optimiser has failed on an image and fileToBase64 has
\* fallen back on the raw bytes, the scan goes on (single or batch) and the
\* request to the analysis service carries those raw bytes under the file's
\* own MIME type.
C20_FallbackSendsOriginal ==
  /\ lastOp.op \in {"fileToBase64", "batchItemComplete"}
  /\ IsImage(lastOp.files[1])
  /\ lastOp.request.data.enc = "raw"
  => /\ lastOp.request.data = Base64(lastOp.files[1], "raw")
     /\ lastOp.request.mimeType = FileType(lastOp.files[1])

\* The output dimension out is the input dimension a scaled by max / b and
\* rounded down, by one pixel at most.
ScaledWithinRounding(out, a, max, b) ==
  /\ out * b <= a * max
  /\ a * max - out * b <= b

\* C21: for an image whose width or height exceeds 1024 the larger dimension
\* of the output is exactly 1024 and the other one is scaled by the same
\* factor, within rounding; an image with both dimensions at most 1024 keeps
\* its size; no output dimension exceeds the input dimension.
C21_OutputSize ==
  canvas # Null =>
    /\ (image.width > 1024 \/ image.height > 1024) =>
         IF image.width > image.height
         THEN /\ canvas.width = 1024
              /\ canvas.height <= 1024
              /\ ScaledWithinRounding(canvas.height, image.height, 1024,
                                      image.width)
         ELSE /\ canvas.height = 1024
              /\ canvas.width <= 1024
              /\ ScaledWithinRounding(canvas.width, image.width, 1024,
                                      image.height)
    /\ (image.width <= 1024 /\ image.height <= 1024) => canvas = image
    /\ canvas.width <= image.width
    /\ canvas.height <= image.height

\* A portrait image above the limit has been scaled down.
C21_Witness ==
  /\ canvas # Null
  /\ image.height > 1024
  /\ image.height > image.width
  /\ canvas.height = 1024
  /\ canvas.width < image.width

\* C22: the MIME type of every request to the analysis service follows from
\* the type of the file alone, on the single path and on the batch path
\* alike: image/jpeg for a file whose type begins with image/; for any other
\* file the file's own type, with the raw bytes of the file as the data.
C22_MimeByFileType ==
  lastOp.request # Null =>
    LET file == lastOp.files[1]
    IN IF IsImage(file)
       THEN lastOp.request.mimeType = "image/jpeg"
       ELSE /\ lastOp.request.mimeType = FileType(file)
            /\ lastOp.request.data = Base64(file, "raw")

\* A batch item that is an image has been analysed as image/jpeg.
C22_Witness ==
  /\ lastOp.op = "batchItemComplete"
  /\ FileType(lastOp.files[1]) = "image/png"
  /\ lastOp.request.mimeType = "image/jpeg"

\* The service gave nothing analyzeContent can use: the call was rejected,
\* or the response has no body, or its body is not JSON.
Unusable(r) ==
  \/ r.kind = "rejected"
  \/ r.body.kind = "none"
  \/ r.body.kind = "text" /\ r.body.text \in {<<>>, <<"f", "a", "i", "l">>}

\* C23: one call of analyzeContent makes exactly one request of the remote
\* service; when the request is rejected, the response has no body or the
\* body does not parse, the call ends with the error and without a result,
\* and no second request is made.
C23_OneRequestNoRetry ==
  /\ call.requests <= 1
  /\ call.pc \in {"responded", "returned", "threw"} => call.requests = 1
  /\ call.pc \notin {"idle", "start", "responded"} /\ Unusable(call.response)
     => /\ call.pc = "threw"
        /\ call.error # "none"
        /\ call.result = Null
  /\ call.pc = "returned" => call.result # Null /\ call.error = "none"

\* A response without a body has ended the call with an error.
C23_Witness ==
  /\ call.pc = "threw"
  /\ call.requests = 1
  /\ call.response.kind = "resolved"
  /\ call.response.body.kind = "none"
  /\ call.error = "No response from AI"

\* C24: the timestamp of every result, and of its history item, is the one
\* read from the local clock when the result was made: a timestamp field of
\* the remote response or of a bridge payload never gets through.
C24_TimestampIsLocal ==
  /\ currentResult # Null => currentResult.timestamp = LocalTimestamp
  /\ \A k \in 1..Len(history) : history[k].timestamp = LocalTimestamp
  /\ \A k \in 1..Len(batchResults) :
       batchResults[k].result.timestamp = LocalTimestamp

\* A scan whose remote response carries a timestamp of its own has
\* completed, and so has an injection whose payload carries one.
C24_Witness ==
  /\ \/ /\ lastOp.op = "scanComplete"
        /\ ResponseData(lastOp.files[1]).timestamp = RemoteTimestamp
     \/ /\ InjectedObject
        /\ "timestamp" \in DOMAIN lastOp.payload.value
        /\ lastOp.payload.value.timestamp = RemoteTimestamp
  /\ currentResult # Null
  /\ Len(history) > 0
  /\ history[1].timestamp = LocalTimestamp

\* C25: the history is stored oldest first: a completion (single scan,
\* batch item or bridge injection) leaves the items stored so far where they
\* were and puts its own item at the end.
C25_StoredOldestFirst ==
  [][Len(history') > Len(history)
     => SubSeq(history', 1, Len(history)) = history]_vars

\* C26: the dashboard lists the history newest first: the item of a
\* completion goes to the front of the displayed list, before every item
\* that was displayed already.
C26_NewestShownFirst ==
  [][Len(history') > Len(history)
     => Tail(RecentAnalysisLogs(history')) = RecentAnalysisLogs(history)]_vars

\* s can be got from t by leaving elements out.
RECURSIVE IsSubsequence(_, _)
IsSubsequence(s, t) ==
  IF s = <<>> THEN TRUE
  ELSE IF t = <<>> THEN FALSE
  ELSE IF Head(s) = Head(t) THEN IsSubsequence(Tail(s), Tail(t))
  ELSE IsSubsequence(s, Tail(t))

\* C27: the batch results are in input order: the file names of the entries
\* form a subsequence of the input list of the batch, and every entry
\* carries the verdict of the file it names.
C27_BatchResultsInInputOrder ==
  /\ IsSubsequence([k \in 1..Len(batchResults) |-> batchResults[k].fileName],
                   run.files)
  /\ \A k \in 1..Len(batchResults) :
       batchResults[k].result = ServiceResult(batchResults[k].fileName)

\* C28: from every view the navigation to Dashboard and to Settings can be
\* taken, and it changes the view only: status, current file, current
\* result, batch queue, batch results, batch progress and history stay.
C28_NavigationChangesViewOnly ==
  /\ [](\A t \in {"DASHBOARD", "SETTINGS"} : view # t => ENABLED Navigate(t))
  /\ [][lastOp'.op = "navigate"
          => /\ view' \in {"DASHBOARD", "SETTINGS"}
             /\ status' = status
             /\ currentFile' = currentFile
             /\ currentResult' = currentResult
             /\ batchQueue' = batchQueue
             /\ batchResults' = batchResults
             /\ batchProgress' = batchProgress
             /\ history' = history]_vars

\* The dashboard has been opened in the middle of a batch.
C28_Witness ==
  /\ lastOp.op = "navigate"
  /\ view = "DASHBOARD"
  /\ status = "ANALYZING"
  /\ Len(batchQueue) > 0
  /\ Len(history) > 0

\* C29: the cursor is always an index 0..8 of the status-text list; while
\* the view is SCANNING the interval ticks, and each tick advances the
\* cursor by one modulo 9; whenever the view changes to a view other than
\* SCANNING the cursor is put back to 0.
C29_CursorAdvancesAndResets ==
  /\ [](scanStep \in 0..8)
  /\ [](view = "SCANNING" => ENABLED ScanTick)
  /\ [][/\ lastOp'.op = "scanTick"
             => /\ view = "SCANNING" /\ view' = "SCANNING"
                /\ scanStep' = (scanStep + 1) % 9
        /\ view' # view /\ view' # "SCANNING" => scanStep' = 0]_vars

\* The cursor has gone round the whole list.
C29_Witness ==
  /\ lastOp.op = "scanTick"
  /\ view = "SCANNING"
  /\ scanStep = 0

\* C30: the text shown after a tick is the entry of the status-text list at
\* the position the cursor has reached (or, read loosely, the position it
\* has just left), so successive ticks show successive entries.
C30_TextFollowsCursor ==
  lastOp.op = "scanTick"
    => scanText \in {FORENSIC_STEPS[scanStep + 1],
                     FORENSIC_STEPS[((scanStep + 8) % 9) + 1]}

\* C37: an integration that is inactive stays inactive until the user
\* toggles it: only a toggle of that card takes it out of inactive, no
\* connection timer does.
C37_InactiveUntilToggled ==
  [][\A k \in IntegrationKeys :
       statuses[k] = "inactive" /\ statuses'[k] # "inactive"
         => panelOp' = [op |-> "toggleStatus", key |-> k]]_vars

\* C31: throughout a batch of N files the completed-count plus the length
\* of the pending queue is N (the denominator of the progress shown), and
\* the batch results are never more than the completed-count.
C31_ProgressDenominatorConstant ==
  view \in {"BATCH_PROCESSING", "BATCH_RESULT"}
    => /\ batchProgress + Len(batchQueue) = Len(run.files)
       /\ Len(batchResults) <= batchProgress

\* The files of a list.
FilesOf(list) == {list[k] : k \in 1..Len(list)}

\* C32: batches are isolated: once a batch has been started, the pending
\* queue holds files of that batch only and the batch results are results
\* of files of that batch only, whatever was in flight when it started.
C32_BatchesIsolated ==
  run.id > 0 =>
    /\ FilesOf(batchQueue) \subseteq FilesOf(run.files)
    /\ \A k \in 1..Len(batchResults) :
         batchResults[k].fileName \in FilesOf(run.files)

\* C33: the current result belongs to the current file: when a scan of a
\* file has just put its result on the result screen, the current file is
\* that file.
C33_ResultBelongsToFile ==
  lastOp.op = "scanComplete" /\ view = "RESULT"
    => /\ currentResult = lastOp.result
       /\ currentFile # Null
       /\ currentFile.file = lastOp.files[1]

\* C34: whenever the view is RESULT both the current file and the current
\* result are set.
C34_ResultViewHasContent ==
  view = "RESULT" => currentFile # Null /\ currentResult # Null

\* C35: whenever the view is RESULT or BATCH_RESULT the status is COMPLETE;
\* the status is IDLE only before the first scan or after a reset: nothing
\* but a reset makes it IDLE.
C35_StatusMatchesView ==
  /\ [](view \in {"RESULT", "BATCH_RESULT"} => status = "COMPLETE")
  /\ [][status' = "IDLE" => status = "IDLE" \/ lastOp'.op = "resetScanner"]_vars

\* A batch has just ended on the batch result screen, after a reset or an
\* injection had changed the status in the middle of it.
C35_Witness ==
  /\ lastOp.op \in {"batchItemComplete", "batchItemError"}
  /\ view = "BATCH_RESULT"
  /\ status = "COMPLETE"
  /\ injections > 0

\* C36: bridge wrappers never nest: however often the adapter has been torn
\* down and installed again, what it holds as the original handler is the
\* page's own handler (or none), never an adapter; one call of the injection
\* point calls the page's handler once, when there is one, and puts exactly
\* one item on the history.
C36_WrappersNeverNest ==
  [][lastOp'.op = "handleResult"
       => /\ originalHandleResult = indexHandler
          /\ originalHandleResult # "adapter"
          /\ (lastOp'.legacy = "absent") = (indexHandler = "none")
          /\ Len(history') = Len(history) + 1]_vars

====
